---------------------------- MODULE Spec2Model ----------------------------
(***************************************************************************)
(* Model of tsvalid's TSValidChecker.validate (src/tsvalid/tsvalid.py).    *)
(*                                                                         *)
(* Text is a sequence of one-character strings.  A run is determined by    *)
(* the file content, the place where the text reader fails to decode (if   *)
(* any), and the options (exceptions, fail, summary, comment).  One action *)
(* models one iteration of the line loop; three more model the code after  *)
(* the loop.  sys.exit and uncaught exceptions end the run in the control  *)
(* states "exit" and "raised".                                             *)
(***************************************************************************)
EXTENDS Integers, Sequences, FiniteSets, TLC

\* ------------------------------------------------------------------------
\* Bounds of the model
\* ------------------------------------------------------------------------
MaxLen == 4

\* the longest text of a run that departs from the default options or
\* from a file that decodes
MaxVariantLen == 2

\* the longest text over the wide alphabet
MaxWideLen == 3

\* the number of calls of validate on one checker
MaxCalls == 2

\* ------------------------------------------------------------------------
\* Characters and str helpers
\* ------------------------------------------------------------------------
TAB == "\t"
LF == "\n"
CR == "\r"
SPACE == " "
HASH == "#"
\* form feed: whitespace for str.strip(), printable ASCII, no line boundary
FF == "\f"
\* a character outside ASCII
E_ACUTE == "U+00E9"

Alphabet == {"a", SPACE, TAB, LF, CR, HASH}

\* the alphabet with the characters only some checks tell apart
WideAlphabet == Alphabet \cup {FF, E_ACUTE}

\* characters str.strip() removes
Whitespace == {SPACE, TAB, LF, CR, FF}

RECURSIVE LStrip(_)
LStrip(s) ==
    IF s # <<>> /\ Head(s) \in Whitespace THEN LStrip(Tail(s)) ELSE s

RECURSIVE RStrip(_)
RStrip(s) ==
    IF s # <<>> /\ s[Len(s)] \in Whitespace
    THEN RStrip(SubSeq(s, 1, Len(s) - 1))
    ELSE s

\* str.strip()
Strip(s) == RStrip(LStrip(s))

\* str.startswith(p)
StartsWith(s, p) == Len(s) >= Len(p) /\ SubSeq(s, 1, Len(p)) = p

\* str.endswith(p)
EndsWith(s, p) ==
    Len(s) >= Len(p) /\ SubSeq(s, Len(s) - Len(p) + 1, Len(s)) = p

\* re.search of a literal pattern p in s
Contains(s, p) ==
    \E i \in 1..(Len(s) - Len(p) + 1) : SubSeq(s, i, i + Len(p) - 1) = p

\* str.count(c) for a single character c
Count(s, c) == Cardinality({i \in 1..Len(s) : s[i] = c})

\* str.replace(p, ""): the leftmost non-overlapping occurrences of p go
RECURSIVE Remove(_, _)
Remove(s, p) ==
    IF s = <<>> THEN <<>>
    ELSE IF StartsWith(s, p) THEN Remove(SubSeq(s, Len(p) + 1, Len(s)), p)
    ELSE <<Head(s)>> \o Remove(Tail(s), p)

\* str.split("\t"): cur is the cell being collected
RECURSIVE SplitFrom(_, _)
SplitFrom(s, cur) ==
    IF s = <<>> THEN <<cur>>
    ELSE IF Head(s) = TAB THEN <<cur>> \o SplitFrom(Tail(s), <<>>)
    ELSE SplitFrom(Tail(s), Append(cur, Head(s)))

Split(s) == SplitFrom(s, <<>>)

\* util.replace_newline_chars
replace_newline_chars(string) ==
    Remove(Remove(Remove(Remove(string, <<CR, LF>>), <<LF, CR>>), <<LF>>), <<CR>>)

\* Length of the first line of a non-empty text opened with newline="":
\* a line ends after "\n", after "\r\n", or after a "\r" that no "\n"
\* follows; the terminator stays in the line.
RECURSIVE LineEnd(_, _)
LineEnd(s, i) ==
    IF i > Len(s) THEN Len(s)
    ELSE IF s[i] = LF THEN i
    ELSE IF s[i] = CR THEN (IF i < Len(s) /\ s[i + 1] = LF THEN i + 1 ELSE i)
    ELSE LineEnd(s, i + 1)

\* next(f): the next raw line, and what is left of the file
readline(s) == SubSeq(s, 1, LineEnd(s, 1))
after_readline(s) == SubSeq(s, LineEnd(s, 1) + 1, Len(s))

\* ------------------------------------------------------------------------
\* Context keys and the checks
\* ------------------------------------------------------------------------
KEY_LAST_LINE == "last_line"
KEY_CURRENT_LINE == "line_number"
KEY_FIRST_ROW == "first_row"
KEY_COLUMN == "column"
KEY_TAB_COUNT == "tab_count"
KEY_COLUMN_VALUE_EMPTY_COUNTS == "column_values_empty"
KEY_FILENAME == "filename"
KEY_CURRENT_CHECK == "error_code"
KEY_CURRENT_CHECK_NAME == "error_name"
KEY_ERROR_SUMMARY == "summary"

\* dict[key] = value
Put(d, k, v) == (k :> v) @@ d

\* A check object: its error code, type(check).__name__, and the base class
\* that provides check().
Check(code, name, level) == [error_code |-> code, name |-> name, level |-> level]

FileEncodingCheck == Check("E0", "FileEncodingCheck", "file")
LinebreakEncodingCheck == Check("E1", "LinebreakEncodingCheck", "line")
LeadingWhitespaceCheck == Check("E2", "LeadingWhitespaceCheck", "cell")
TrailingWhitespaceCheck == Check("E3", "TrailingWhitespaceCheck", "cell")
NumberOfTabsCheck == Check("E4", "NumberOfTabsCheck", "line")
EmptyLinesCheck == Check("E5", "EmptyLinesCheck", "line")
MissingValueInHeaderCheck == Check("E6", "MissingValueInHeaderCheck", "cell")
DuplicateValueInHeaderCheck == Check("E10", "DuplicateValueInHeaderCheck", "line")
RedundantWhitespaceInCell == Check("E7", "RedundantWhitespaceInCell", "cell")
EmptyColumnCheck == Check("E8", "EmptyColumnCheck", "line")
EmptyLastRowCheck == Check("E9", "EmptyLastRowCheck", "line")

\* LinebreakEncodingCheck.endings
endings == << <<CR, LF>>, <<LF, CR>>, <<CR>> >>

\* the check as it would be if the lone "\r" ending were missing from the list
LinebreakEncoding_fail_condition_without_cr(line, context) ==
    \E i \in 1..2 : Contains(line, endings[i])

LinebreakEncoding_fail_condition(line, context) ==
    \E i \in 1..Len(endings) : Contains(line, endings[i])

LeadingWhitespace_fail_condition(cell, context) == StartsWith(cell, <<SPACE>>)

TrailingWhitespace_fail_condition(cell, context) == EndsWith(cell, <<SPACE>>)

\* the condition with ">" in place of "!=": a row with fewer tabs passes
NumberOfTabs_fail_condition_more_only(line, context) ==
    IF KEY_TAB_COUNT \notin DOMAIN context THEN FALSE
    ELSE Count(line, TAB) > context[KEY_TAB_COUNT]

NumberOfTabs_fail_condition(line, context) ==
    IF KEY_TAB_COUNT \notin DOMAIN context THEN FALSE
    ELSE Count(line, TAB) # context[KEY_TAB_COUNT]

EmptyLines_fail_condition(line, context) == Strip(line) = <<>>

\* the condition with cell == "" in place of "not cell.strip()"
MissingValueInHeader_fail_condition_without_strip(cell, context) ==
    IF KEY_FIRST_ROW \notin DOMAIN context THEN FALSE
    ELSE context[KEY_FIRST_ROW] = context[KEY_CURRENT_LINE] /\ cell = <<>>

MissingValueInHeader_fail_condition(cell, context) ==
    IF KEY_FIRST_ROW \notin DOMAIN context THEN FALSE
    ELSE context[KEY_FIRST_ROW] = context[KEY_CURRENT_LINE] /\ Strip(cell) = <<>>

DuplicateValueInHeader_fail_condition(line, context) ==
    LET line_values == Split(line)
    IN  Len(line_values) #
            Cardinality({line_values[i] : i \in 1..Len(line_values)})

RedundantWhitespaceInCell_fail_condition(cell, context) ==
    cell # <<>> /\ Strip(cell) = <<>>

EmptyLastRow_fail_condition(line, context) ==
    IF KEY_LAST_LINE \notin DOMAIN context THEN FALSE
    ELSE context[KEY_LAST_LINE] = context[KEY_CURRENT_LINE]
         /\ ~EndsWith(line, <<LF>>)

\* check._fail_condition(to_check, context), dispatched on the class
fail_condition(check, to_check, context) ==
    CASE check.name = "LinebreakEncodingCheck" ->
            LinebreakEncoding_fail_condition(to_check, context)
      [] check.name = "LeadingWhitespaceCheck" ->
            LeadingWhitespace_fail_condition(to_check, context)
      [] check.name = "TrailingWhitespaceCheck" ->
            TrailingWhitespace_fail_condition(to_check, context)
      [] check.name = "NumberOfTabsCheck" ->
            NumberOfTabs_fail_condition(to_check, context)
      [] check.name = "EmptyLinesCheck" ->
            EmptyLines_fail_condition(to_check, context)
      [] check.name = "MissingValueInHeaderCheck" ->
            MissingValueInHeader_fail_condition(to_check, context)
      [] check.name = "DuplicateValueInHeaderCheck" ->
            DuplicateValueInHeader_fail_condition(to_check, context)
      [] check.name = "RedundantWhitespaceInCell" ->
            RedundantWhitespaceInCell_fail_condition(to_check, context)
      [] check.name = "EmptyLastRowCheck" ->
            EmptyLastRow_fail_condition(to_check, context)

\* ------------------------------------------------------------------------
\* The state of one run, as a record st:
\*   pc          where validate is: "loop", "after_loop", "columns", "return",
\*               or finished: "done" (returned), "exit" (sys.exit(1)),
\*               "raised" (an exception left validate)
\*   rest        the part of the file not read yet
\*   line_counter, last_line_without_new_line, last_line_with_new_line,
\*   context     the locals of validate
\*   printed     the records print_validation_error wrote, in order
\*   result      the returned mapping, or the name of the exception
\* ------------------------------------------------------------------------
NoResult == "NoResult"

\* an exception leaves validate
Raise(st, exc) == [st EXCEPT !.pc = "raised", !.result = exc]

\* prepare_context_with_error_information with a new entry starting at
\* count 1 in place of 0, before the increment
prepare_context_counting_from_one(st, check) ==
    IF KEY_CURRENT_LINE \notin DOMAIN st.context THEN Raise(st, "KeyError")
    ELSE
    LET c1 == Put(Put(st.context, KEY_CURRENT_CHECK, check.error_code),
                  KEY_CURRENT_CHECK_NAME, check.name)
        c2 == IF KEY_ERROR_SUMMARY \in DOMAIN c1 THEN c1
              ELSE Put(c1, KEY_ERROR_SUMMARY, <<>>)
        clz == c2[KEY_CURRENT_CHECK_NAME]
        old == c2[KEY_ERROR_SUMMARY]
        s1 == IF clz \in DOMAIN old THEN old
              ELSE Put(old, clz,
                       [count |-> 1, error_code |-> c2[KEY_CURRENT_CHECK]])
        s2 == [s1 EXCEPT ![clz].count = @ + 1]
    IN  [st EXCEPT !.context = Put(c2, KEY_ERROR_SUMMARY, s2)]

\* prepare_context_with_error_information; get_message formats the
\* template with context[KEY_CURRENT_LINE] and context[KEY_COLUMN].
prepare_context_with_error_information(st, check) ==
    IF KEY_CURRENT_LINE \notin DOMAIN st.context THEN Raise(st, "KeyError")
    ELSE
    LET c1 == Put(Put(st.context, KEY_CURRENT_CHECK, check.error_code),
                  KEY_CURRENT_CHECK_NAME, check.name)
        c2 == IF KEY_ERROR_SUMMARY \in DOMAIN c1 THEN c1
              ELSE Put(c1, KEY_ERROR_SUMMARY, <<>>)
        clz == c2[KEY_CURRENT_CHECK_NAME]
        old == c2[KEY_ERROR_SUMMARY]
        s1 == IF clz \in DOMAIN old THEN old
              ELSE Put(old, clz,
                       [count |-> 0, error_code |-> c2[KEY_CURRENT_CHECK]])
        s2 == [s1 EXCEPT ![clz].count = @ + 1]
    IN  [st EXCEPT !.context = Put(c2, KEY_ERROR_SUMMARY, s2)]

\* print_validation_error: <filename>:<line>:<column>: <code>: <message>
print_validation_error(st) ==
    [st EXCEPT !.printed = Append(@,
        [line |-> st.context[KEY_CURRENT_LINE],
         column |-> st.context[KEY_COLUMN],
         code |-> st.context[KEY_CURRENT_CHECK]])]

report_failure(st, check) ==
    LET s1 == prepare_context_with_error_information(st, check)
    IN  IF s1.pc = "raised" THEN s1 ELSE print_validation_error(s1)

check_fail_condition_and_report(st, check, to_check) ==
    IF fail_condition(check, to_check, st.context)
    THEN report_failure(st, check)
    ELSE st

\* TSValidCellLevelCheck.check: the loop over enumerate(to_check.split("\t"))
RECURSIVE CellLevelLoop(_, _, _, _)
CellLevelLoop(st, check, cells, idx) ==
    IF idx >= Len(cells) THEN st
    ELSE CellLevelLoop(
            check_fail_condition_and_report(
                [st EXCEPT !.context = Put(@, KEY_COLUMN, idx)],
                check, cells[idx + 1]),
            check, cells, idx + 1)

\* TSValidCellLevelCheck.check returns success = True whatever it reported
TSValidCellLevelCheck_check(st, check, to_check) ==
    [st |-> CellLevelLoop(st, check, Split(to_check), 0), success |-> "True"]

\* TSValidLineLevelCheck.check has no return statement: it returns None
TSValidLineLevelCheck_check(st, check, to_check) ==
    [st |-> check_fail_condition_and_report(st, check, to_check),
     success |-> "None"]

\* Python's "not success"
Falsy(v) == v \in {"None", "False"}

\* TSValidChecker._consider_failing
consider_failing(st, self, success) ==
    IF self.fail /\ Falsy(success) THEN [st EXCEPT !.pc = "exit"] ELSE st

\* "check.error_code not in self.exceptions"
Excluded(check, self) ==
    \E i \in 1..Len(self.exceptions) : self.exceptions[i] = check.error_code

\* TSValidChecker._run_check (reached through _run_check_and_append_report).
\* Nothing runs once sys.exit has been called.
run_check(st, self, check, to_check) ==
    IF st.pc = "exit" THEN st
    ELSE IF Excluded(check, self) THEN st
    ELSE LET r == IF check.level = "cell"
                  THEN TSValidCellLevelCheck_check(st, check, to_check)
                  ELSE TSValidLineLevelCheck_check(st, check, to_check)
         IN  consider_failing(r.st, self, r.success)

\* validate's line_level_checks, in order
line_level_checks ==
    <<TrailingWhitespaceCheck, LeadingWhitespaceCheck, NumberOfTabsCheck,
      RedundantWhitespaceInCell>>

\* TSValidChecker._run_checks
RECURSIVE run_checks(_, _, _, _, _)
run_checks(st, self, checks, i, to_test) ==
    IF i > Len(checks) THEN st
    ELSE run_checks(run_check(st, self, checks[i], to_test),
                    self, checks, i + 1, to_test)

\* the loop over enumerate(cell_list) with "if cell:" in place of
\* "if cell.strip():"
RECURSIVE CountCellsLoop_without_strip(_, _, _)
CountCellsLoop_without_strip(counts, cell_list, idx) ==
    IF idx >= Len(cell_list) THEN counts
    ELSE LET c1 == IF idx \in DOMAIN counts THEN counts ELSE Put(counts, idx, 0)
             c2 == IF cell_list[idx + 1] # <<>>
                   THEN [c1 EXCEPT ![idx] = @ + 1]
                   ELSE c1
         IN  CountCellsLoop_without_strip(c2, cell_list, idx + 1)

\* _count_empty_values_in_cells: the loop over enumerate(cell_list)
RECURSIVE CountCellsLoop(_, _, _)
CountCellsLoop(counts, cell_list, idx) ==
    IF idx >= Len(cell_list) THEN counts
    ELSE LET c1 == IF idx \in DOMAIN counts THEN counts ELSE Put(counts, idx, 0)
             c2 == IF Strip(cell_list[idx + 1]) # <<>>
                   THEN [c1 EXCEPT ![idx] = @ + 1]
                   ELSE c1
         IN  CountCellsLoop(c2, cell_list, idx + 1)

count_empty_values_in_cells(context, line) ==
    LET c1 == IF KEY_COLUMN_VALUE_EMPTY_COUNTS \in DOMAIN context THEN context
              ELSE Put(context, KEY_COLUMN_VALUE_EMPTY_COUNTS, <<>>)
    IN  Put(c1, KEY_COLUMN_VALUE_EMPTY_COUNTS,
            CountCellsLoop(c1[KEY_COLUMN_VALUE_EMPTY_COUNTS], Split(line), 0))

\* ------------------------------------------------------------------------
\* validate, step by step.  An input of a run is a record in:
\*   file             the decoded text of the file
\*   decode_error_at  the number of lines the reader yields before decoding
\*                    fails, or NoDecodeError for a file that decodes
\*   exceptions, fail the fields of the TSValidChecker (self)
\*   summary, comment the arguments of validate; comment <<>> is None
\* ------------------------------------------------------------------------
NoDecodeError == -1

\* the state when the line loop is entered
InitState(in) ==
    [pc |-> "loop",
     rest |-> in.file,
     line_counter |-> 0,
     last_line_without_new_line |-> <<>>,
     last_line_with_new_line |-> <<>>,
     context |-> (KEY_FILENAME :> "file_path") @@ (KEY_COLUMN :> "NA"),
     printed |-> <<>>,
     result |-> NoResult]

\* a call of validate with the context kept on the checker (a field) in
\* place of the local created by the call
EnterValidate_keeping_context(st, in) ==
    [InitState(in) EXCEPT !.context = st.context]

\* a call of validate in the state st left by the call before it: every
\* local, the context among them, is created anew
EnterValidate(st, in) == InitState(in)

\* the test with line_without_new_line == comment in place of startswith
IsCommentLine_whole_line(line_without_new_line, comment) ==
    comment # <<>> /\ line_without_new_line = comment

\* "not comment or not line_without_new_line.startswith(comment)"
IsCommentLine(line_without_new_line, comment) ==
    comment # <<>> /\ StartsWith(line_without_new_line, comment)

\* context[key] = value, unless sys.exit has ended the run
SetContext(st, key, value) ==
    IF st.pc = "exit" THEN st ELSE [st EXCEPT !.context = Put(@, key, value)]

\* the checks of one line with tab_count set on every line, in place of
\* only when it is not yet in the context
LineChecks_setting_tab_count_always(st, self, line, line_without_new_line) ==
    LET c1 == count_empty_values_in_cells(st.context, line)
        c2 == Put(c1, KEY_TAB_COUNT, Count(line_without_new_line, TAB))
        s2 == [st EXCEPT !.context = c2]
        s3 == IF KEY_FIRST_ROW \notin DOMAIN c2
              THEN run_check(
                     run_check(
                       [s2 EXCEPT !.context = Put(@, KEY_FIRST_ROW, st.line_counter)],
                       self, MissingValueInHeaderCheck, line_without_new_line),
                     self, DuplicateValueInHeaderCheck, line_without_new_line)
              ELSE s2
        s4 == run_checks(s3, self, line_level_checks, 1, line_without_new_line)
        s5 == run_check(s4, self, LinebreakEncodingCheck, line)
    IN  IF st.line_counter > 1
        THEN run_check(SetContext(s5, KEY_CURRENT_LINE, st.line_counter - 1),
                       self, EmptyLinesCheck, st.last_line_without_new_line)
        ELSE s5

\* the checks of one line that is not a comment
LineChecks(st, self, line, line_without_new_line) ==
    LET c1 == count_empty_values_in_cells(st.context, line)
        c2 == IF KEY_TAB_COUNT \notin DOMAIN c1
              THEN Put(c1, KEY_TAB_COUNT, Count(line_without_new_line, TAB))
              ELSE c1
        s2 == [st EXCEPT !.context = c2]
        s3 == IF KEY_FIRST_ROW \notin DOMAIN c2
              THEN run_check(
                     run_check(
                       [s2 EXCEPT !.context = Put(@, KEY_FIRST_ROW, st.line_counter)],
                       self, MissingValueInHeaderCheck, line_without_new_line),
                     self, DuplicateValueInHeaderCheck, line_without_new_line)
              ELSE s2
        s4 == run_checks(s3, self, line_level_checks, 1, line_without_new_line)
        s5 == run_check(s4, self, LinebreakEncodingCheck, line)
    IN  IF st.line_counter > 1
        THEN run_check(SetContext(s5, KEY_CURRENT_LINE, st.line_counter - 1),
                       self, EmptyLinesCheck, st.last_line_without_new_line)
        ELSE s5

\* one iteration of "for line in f"
LineStep(st, in) ==
    LET self == [exceptions |-> in.exceptions, fail |-> in.fail]
        line == readline(st.rest)
        line_without_new_line == replace_newline_chars(line)
        s1 == [st EXCEPT !.rest = after_readline(st.rest),
                         !.line_counter = @ + 1,
                         !.context = Put(Put(@, KEY_CURRENT_LINE, st.line_counter + 1),
                                         KEY_COLUMN, 0)]
        s2 == IF IsCommentLine(line_without_new_line, in.comment) THEN s1
              ELSE LineChecks(s1, self, line, line_without_new_line)
    IN  IF s2.pc = "exit" THEN s2
        ELSE [s2 EXCEPT !.last_line_without_new_line = line_without_new_line,
                        !.last_line_with_new_line = line]

\* what the reader raises on undecodable bytes, and what validate catches
RaisedOnBadBytes == "UnicodeDecodeError"
CaughtByValidate == "UnicodeEncodeError"

\* the reader fails to decode: "except UnicodeEncodeError" handles the
\* exception only if it is one
DecodeErrorStep(st, in) ==
    IF RaisedOnBadBytes = CaughtByValidate
    THEN LET s1 == prepare_context_with_error_information(st, FileEncodingCheck)
         IN  IF s1.pc = "raised" THEN s1 ELSE [s1 EXCEPT !.pc = "after_loop"]
    ELSE Raise(st, RaisedOnBadBytes)

\* after the loop: context[KEY_COLUMN] = 0, KEY_LAST_LINE, the last row check
LastRowStep(st, in) ==
    LET self == [exceptions |-> in.exceptions, fail |-> in.fail]
        c1 == Put(st.context, KEY_COLUMN, 0)
    IN  IF KEY_CURRENT_LINE \notin DOMAIN c1
        THEN Raise([st EXCEPT !.context = c1], "KeyError")
        ELSE LET s1 == [st EXCEPT !.context = Put(c1, KEY_LAST_LINE, c1[KEY_CURRENT_LINE]),
                                  !.pc = "columns"]
             IN  run_check(s1, self, EmptyLastRowCheck, st.last_line_with_new_line)

\* "for column in context[KEY_COLUMN_VALUE_EMPTY_COUNTS]": the keys were
\* inserted in the order 0, 1, 2, ...
RECURSIVE EmptyColumnLoop(_, _, _)
EmptyColumnLoop(st, self, column) ==
    IF st.pc \in {"exit", "raised"} THEN st
    ELSE IF column \notin DOMAIN st.context[KEY_COLUMN_VALUE_EMPTY_COUNTS] THEN st
    ELSE IF st.context[KEY_COLUMN_VALUE_EMPTY_COUNTS][column] = 0
         THEN EmptyColumnLoop(
                consider_failing(report_failure(st, EmptyColumnCheck), self, "False"),
                self, column + 1)
         ELSE EmptyColumnLoop(st, self, column + 1)

ColumnsStep(st, in) ==
    LET self == [exceptions |-> in.exceptions, fail |-> in.fail]
    IN  IF KEY_COLUMN_VALUE_EMPTY_COUNTS \notin DOMAIN st.context
        THEN Raise(st, "KeyError")
        ELSE EmptyColumnLoop([st EXCEPT !.pc = "return"], self, 0)

\* "if summary and KEY_ERROR_SUMMARY in context: ... return summary_report
\*  else: return {}"
ReturnStep(st, in) ==
    [st EXCEPT !.pc = "done",
               !.result = IF in.summary /\ KEY_ERROR_SUMMARY \in DOMAIN st.context
                          THEN st.context[KEY_ERROR_SUMMARY]
                          ELSE <<>>]

Finished(st) == st.pc \in {"done", "exit", "raised"}

\* the reader fails before it yields line number line_counter + 1
DecodeErrorNow(st, in) ==
    st.pc = "loop" /\ st.line_counter = in.decode_error_at

\* the line loop has ended: the file is exhausted, or the handler of the
\* decode error has run
AfterLoop(st, in) ==
    \/ st.pc = "after_loop"
    \/ st.pc = "loop" /\ ~DecodeErrorNow(st, in) /\ st.rest = <<>>

\* the next step of a run that has not finished
Step(st, in) ==
    CASE st.pc = "loop" /\ DecodeErrorNow(st, in) -> DecodeErrorStep(st, in)
      [] st.pc = "loop" /\ ~DecodeErrorNow(st, in) /\ st.rest # <<>> -> LineStep(st, in)
      [] AfterLoop(st, in) -> LastRowStep(st, in)
      [] st.pc = "columns" -> ColumnsStep(st, in)
      [] st.pc = "return" -> ReturnStep(st, in)

\* a whole call of validate: the state in which it finished
RECURSIVE RunFrom(_, _)
RunFrom(st, in) == IF Finished(st) THEN st ELSE RunFrom(Step(st, in), in)

validate(in) == RunFrom(InitState(in), in)

\* ------------------------------------------------------------------------
\* The inputs of the model
\* ------------------------------------------------------------------------
\* all texts of at most n characters
Texts(n) == UNION {[1..k -> Alphabet] : k \in 0..n}

\* all texts of at most n characters over the wide alphabet
WideTexts(n) == UNION {[1..k -> WideAlphabet] : k \in 0..n}

\* the number of lines the reader yields for a text
RECURSIVE NumLines(_)
NumLines(s) == IF s = <<>> THEN 0 ELSE 1 + NumLines(after_readline(s))

\* the error codes of the checks
Codes == {"E0", "E1", "E2", "E3", "E4", "E5", "E6", "E7", "E8", "E9", "E10"}

\* tokens given to --skip that are patterns
Patterns == {"W.*", "E.*"}

\* the option settings of the model: the defaults of validate_file, and
\* each option changed on its own
DefaultOptions ==
    [exceptions |-> <<>>, fail |-> FALSE, summary |-> TRUE]

OptionSettings ==
    {DefaultOptions}
    \cup {[DefaultOptions EXCEPT !.exceptions = <<t>>] : t \in Codes \cup Patterns}
    \cup {[DefaultOptions EXCEPT !.fail = TRUE]}
    \cup {[DefaultOptions EXCEPT !.summary = FALSE]}

\* ------------------------------------------------------------------------
\* The state machine
\* ------------------------------------------------------------------------
VARIABLES file, decode_error_at, exceptions, fail, summary, comment,
          pc, rest, line_counter, last_line_without_new_line,
          last_line_with_new_line, context, printed, result,
          call, previous

inputs == <<file, decode_error_at, exceptions, fail, summary, comment>>
\* the number of the current call of validate on the checker, and what
\* the call before it returned
calls == <<call, previous>>
vars == <<file, decode_error_at, exceptions, fail, summary, comment,
          pc, rest, line_counter, last_line_without_new_line,
          last_line_with_new_line, context, printed, result,
          call, previous>>

Input ==
    [file |-> file, decode_error_at |-> decode_error_at,
     exceptions |-> exceptions, fail |-> fail, summary |-> summary,
     comment |-> comment]

State ==
    [pc |-> pc, rest |-> rest, line_counter |-> line_counter,
     last_line_without_new_line |-> last_line_without_new_line,
     last_line_with_new_line |-> last_line_with_new_line,
     context |-> context, printed |-> printed, result |-> result]

SetState(st) ==
    /\ pc' = st.pc
    /\ rest' = st.rest
    /\ line_counter' = st.line_counter
    /\ last_line_without_new_line' = st.last_line_without_new_line
    /\ last_line_with_new_line' = st.last_line_with_new_line
    /\ context' = st.context
    /\ printed' = st.printed
    /\ result' = st.result

Init ==
    /\ comment \in {<<>>, <<HASH>>}
    /\ \/ /\ file \in Texts(MaxLen)
          /\ \E o \in OptionSettings :
                /\ exceptions = o.exceptions
                /\ fail = o.fail
                /\ summary = o.summary
                /\ decode_error_at \in
                      IF o = DefaultOptions
                      THEN {NoDecodeError} \cup (0..NumLines(file))
                      ELSE {NoDecodeError}
                /\ (o # DefaultOptions \/ decode_error_at # NoDecodeError)
                      => Len(file) <= MaxVariantLen
       \/ /\ file \in WideTexts(MaxWideLen)
          /\ exceptions = DefaultOptions.exceptions
          /\ fail = DefaultOptions.fail
          /\ summary = DefaultOptions.summary
          /\ decode_error_at = NoDecodeError
    /\ call = 1
    /\ previous = NoResult
    /\ LET st == InitState(Input)
       IN  /\ pc = st.pc
           /\ rest = st.rest
           /\ line_counter = st.line_counter
           /\ last_line_without_new_line = st.last_line_without_new_line
           /\ last_line_with_new_line = st.last_line_with_new_line
           /\ context = st.context
           /\ printed = st.printed
           /\ result = st.result

\* one iteration of the line loop
ReadLine ==
    /\ pc = "loop" /\ ~DecodeErrorNow(State, Input) /\ rest # <<>>
    /\ SetState(LineStep(State, Input))
    /\ UNCHANGED <<inputs, calls>>

\* the reader raises on bytes it cannot decode
DecodeError ==
    /\ pc = "loop" /\ DecodeErrorNow(State, Input)
    /\ SetState(DecodeErrorStep(State, Input))
    /\ UNCHANGED <<inputs, calls>>

\* the last row check after the loop
LastRow ==
    /\ AfterLoop(State, Input)
    /\ SetState(LastRowStep(State, Input))
    /\ UNCHANGED <<inputs, calls>>

\* the empty column loop
Columns ==
    /\ pc = "columns"
    /\ SetState(ColumnsStep(State, Input))
    /\ UNCHANGED <<inputs, calls>>

\* the return statement
Return ==
    /\ pc = "return"
    /\ SetState(ReturnStep(State, Input))
    /\ UNCHANGED <<inputs, calls>>

\* validate is called again on the same checker: its locals are created
\* anew, the checker's fields stay
CallAgain ==
    /\ pc = "done" /\ call < MaxCalls
    /\ SetState(EnterValidate(State, Input))
    /\ call' = call + 1
    /\ previous' = result
    /\ UNCHANGED inputs

Next ==
    ReadLine \/ DecodeError \/ LastRow \/ Columns \/ Return \/ CallAgain

Spec == Init /\ [][Next]_vars

\* ------------------------------------------------------------------------
\* Vocabulary of the properties
\* ------------------------------------------------------------------------
\* the summary a context holds ({} before the first failure)
SummaryOf(ctx) ==
    IF KEY_ERROR_SUMMARY \in DOMAIN ctx THEN ctx[KEY_ERROR_SUMMARY] ELSE <<>>

\* the count a summary records for an error code (0 without an entry)
CodeCount(sum, code) ==
    LET ks == {k \in DOMAIN sum : sum[k].error_code = code}
    IN  IF ks = {} THEN 0 ELSE sum[CHOOSE k \in ks : TRUE].count

\* a summary without its entries of the error codes in cs
Without(sum, cs) ==
    [k \in {x \in DOMAIN sum : sum[x].error_code \notin cs} |-> sum[k]]

\* the number of failures printed with an error code
PrintedCount(code) == Cardinality({j \in 1..Len(printed) : printed[j].code = code})

\* the raw lines of a text, as the reader yields them
RECURSIVE Lines(_)
Lines(s) == IF s = <<>> THEN <<>> ELSE <<readline(s)>> \o Lines(after_readline(s))

\* a raw line without its terminator
Bare(line) == SelectSeq(line, LAMBDA c : c \notin {LF, CR})

\* a raw line ends with one of the illegal line endings
IllegalEnding(line) ==
    \/ EndsWith(line, <<CR, LF>>)
    \/ EndsWith(line, <<LF, CR>>)
    \/ EndsWith(line, <<CR>>)

\* a raw line ends with a line terminator
Terminated(line) == EndsWith(line, <<LF>>) \/ EndsWith(line, <<CR>>)

\* a raw line is a comment line under the configured prefix
Commented(line) == comment # <<>> /\ StartsWith(Bare(line), comment)

\* a run without exclusions and without fail-hard (any comment prefix, any
\* summary option) on a file that decodes
DefaultRun ==
    /\ exceptions = <<>> /\ ~fail
    /\ decode_error_at = NoDecodeError

\* the line loop and the last row check have completed
LoopCompleted == pc \in {"columns", "return", "done"}

\* the same run with other options
OtherRun(in) == validate(in)

\* constants.test_register: check identifier |-> error code
test_register ==
    [fileEncodingCheck |-> "E0",
     unexpectedLineBreakEncoding |-> "E1",
     leadingWhitespaceCheck |-> "E2",
     trailingWhitespaceCheck |-> "E3",
     numberOfTabsCheck |-> "E4",
     emptyLine |-> "E5",
     missingValueInHeader |-> "E6",
     emptyColumn |-> "E8",
     emptyLastRow |-> "E9",
     duplicateValueInHeaderRow |-> "E10",
     nonAsciiCharacterCheck |-> "W1"]

\* the characters of the tokens and codes, for pattern matching
Chars(t) ==
    CASE t = "W.*" -> <<"W", ".", "*">>
      [] t = "E.*" -> <<"E", ".", "*">>
      [] t = "W1" -> <<"W", "1">>
      [] t = "E0" -> <<"E", "0">>
      [] t = "E1" -> <<"E", "1">>
      [] t = "E2" -> <<"E", "2">>
      [] t = "E3" -> <<"E", "3">>
      [] t = "E4" -> <<"E", "4">>
      [] t = "E5" -> <<"E", "5">>
      [] t = "E6" -> <<"E", "6">>
      [] t = "E7" -> <<"E", "7">>
      [] t = "E8" -> <<"E", "8">>
      [] t = "E9" -> <<"E", "9">>
      [] t = "E10" -> <<"E", "1", "0">>

\* re.fullmatch for patterns of literal characters, "." and "x*"
RECURSIVE FullMatch(_, _)
FullMatch(p, s) ==
    IF p = <<>> THEN s = <<>>
    ELSE IF Len(p) >= 2 /\ p[2] = "*"
         THEN \/ FullMatch(SubSeq(p, 3, Len(p)), s)
              \/ /\ s # <<>>
                 /\ (p[1] = "." \/ p[1] = Head(s))
                 /\ FullMatch(p, Tail(s))
    ELSE /\ s # <<>>
         /\ (p[1] = "." \/ p[1] = Head(s))
         /\ FullMatch(Tail(p), Tail(s))

\* an exclusion token matches a code: exactly, or as an anchored regex
TokenMatches(token, code) ==
    token = code \/ FullMatch(Chars(token), Chars(code))

\* ------------------------------------------------------------------------
\* C1
\* ------------------------------------------------------------------------
\* C1: an exclusion token suppresses every check whose code it equals or
\* fully matches as a regex: no failure of a code that a token of the run
\* matches is ever reported, and a run with exceptions = ["W.*"] returns a
\* summary without W1 entry whose E-coded entries are those of the run
\* without exceptions.
C1_RegexExclusionSuppresses ==
    /\ \A i \in 1..Len(exceptions) : \A j \in 1..Len(printed) :
          ~TokenMatches(exceptions[i], printed[j].code)
    /\ (pc = "done" /\ exceptions = <<"W.*">>) =>
          LET base == OtherRun([Input EXCEPT !.exceptions = <<>>])
          IN  /\ base.pc = "done"
              /\ CodeCount(result, "W1") = 0
              /\ Without(result, {"W1"}) = Without(base.result, {"W1"})

\* ------------------------------------------------------------------------
\* C2
\* ------------------------------------------------------------------------
\* C2: excluding a code C of the catalog removes the entries of C from the
\* summary and changes nothing else: the run returns the summary of the run
\* without exclusions, less its entry for C.
C2_ExclusionRemovesOnlyThatCode ==
    (pc = "done" /\ Len(exceptions) = 1 /\ exceptions[1] \in Codes) =>
        LET C == exceptions[1]
            base == OtherRun([Input EXCEPT !.exceptions = <<>>])
        IN  /\ base.pc = "done"
            /\ CodeCount(result, C) = 0
            /\ result = Without(base.result, {C})

\* ------------------------------------------------------------------------
\* C3
\* ------------------------------------------------------------------------
\* the state of the run when the reader fails to decode
RECURSIVE UntilDecodeError(_, _)
UntilDecodeError(st, in) ==
    IF Finished(st) \/ DecodeErrorNow(st, in) THEN st
    ELSE UntilDecodeError(Step(st, in), in)

\* the reader has failed in this run
DecodeErrorHappened ==
    decode_error_at # NoDecodeError /\ ~(pc = "loop")

\* C3: a decode error does not leave validate as an exception; the run
\* returns the summary accumulated before the error plus exactly one E0
\* entry with count 1, and nothing else is added after the error.
C3_DecodeErrorBecomesE0 ==
    DecodeErrorHappened =>
        /\ pc # "raised"
        /\ pc = "done" =>
              LET before == SummaryOf(UntilDecodeError(InitState(Input), Input).context)
              IN  /\ CodeCount(result, "E0") = 1
                  /\ Without(result, {"E0"}) = before

\* ------------------------------------------------------------------------
\* C4
\* ------------------------------------------------------------------------
\* C4: the summary is keyed by the check identifiers of the registry; each
\* entry holds the code registered for its key and the number of failures
\* reported for that check.
C4_SummaryKeyedByCheckIdentifier ==
    \A k \in DOMAIN SummaryOf(context) :
        /\ k \in DOMAIN test_register
        /\ SummaryOf(context)[k].error_code = test_register[k]
        /\ SummaryOf(context)[k].count = PrintedCount(test_register[k])

\* ------------------------------------------------------------------------
\* C5
\* ------------------------------------------------------------------------
\* C5: the returned mapping does not depend on the summary option, and it
\* is empty exactly if no check failed.
C5_ResultIndependentOfSummaryOption ==
    pc = "done" =>
        LET other == OtherRun([Input EXCEPT !.summary = ~summary])
        IN  /\ other.pc = "done"
            /\ result = other.result
            /\ (result = <<>>) <=> (printed = <<>>)

\* ------------------------------------------------------------------------
\* C6
\* ------------------------------------------------------------------------
\* C6: with fail-hard the run exits right after the first reported failure
\* of any kind: at most one failure is ever reported, and once one is
\* reported the run has exited.
C6_FailHardStopsAtFirstFailure ==
    fail => /\ Len(printed) <= 1
            /\ printed # <<>> => pc = "exit"

\* ------------------------------------------------------------------------
\* C7
\* ------------------------------------------------------------------------
\* C7: with fail-hard only a failing check aborts the run: the run never
\* exits without a reported failure, and on a file that is clean without
\* fail-hard it reads every line and returns the empty summary.
C7_FailHardExitsOnlyOnFailure ==
    fail =>
        /\ pc = "exit" => printed # <<>>
        /\ LET base == OtherRun([Input EXCEPT !.fail = FALSE])
           IN  (base.pc = "done" /\ base.printed = <<>>) =>
                   /\ pc # "exit"
                   /\ pc = "done" => (result = <<>> /\ rest = <<>>)

\* ------------------------------------------------------------------------
\* C8
\* ------------------------------------------------------------------------
\* the lines of the file that end with an illegal line ending
IllegalEndingLines ==
    LET ls == Lines(file) IN {i \in 1..Len(ls) : IllegalEnding(ls[i])}

\* the comment lines of the file
CommentLines ==
    LET ls == Lines(file) IN {i \in 1..Len(ls) : Commented(ls[i])}

\* C8 (as claimed): the E1 count equals the number of lines whose
\* terminator is one of the illegal endings (zero if every line ends with a
\* bare "\n").
C8_E1PerIllegalLineEnding ==
    (LoopCompleted /\ DefaultRun) =>
        CodeCount(SummaryOf(context), "E1") = Cardinality(IllegalEndingLines)

\* C8 (amended): the E1 count equals the number of lines that are not
\* comment lines and whose terminator is one of the illegal endings.
C8_E1PerCheckedIllegalLineEnding ==
    (LoopCompleted /\ DefaultRun) =>
        CodeCount(SummaryOf(context), "E1") =
            Cardinality(IllegalEndingLines \ CommentLines)

\* C8 witness: a finished run over a file with an illegally terminated
\* comment line and an illegally terminated checked line, with E1 reported
C8_Witness ==
    /\ pc = "done" /\ DefaultRun
    /\ IllegalEndingLines \cap CommentLines # {}
    /\ IllegalEndingLines \ CommentLines # {}
    /\ CodeCount(SummaryOf(context), "E1") >= 1

\* ------------------------------------------------------------------------
\* C9
\* ------------------------------------------------------------------------
\* the interior lines of the file (all but the last) that are blank
InteriorBlankLines ==
    {i \in 1..(Len(Lines(file)) - 1) : Strip(Bare(Lines(file)[i])) = <<>>}

\* C9: E5 is never reported for the last line, and a file with exactly one
\* interior blank line yields exactly one E5 finding, whatever follows the
\* blank line.
C9_OneInteriorBlankLineOneE5 ==
    (LoopCompleted /\ DefaultRun) =>
        /\ \A j \in 1..Len(printed) :
              printed[j].code = "E5" => printed[j].line < Len(Lines(file))
        /\ Cardinality(InteriorBlankLines) = 1 =>
              CodeCount(SummaryOf(context), "E5") = 1

\* ------------------------------------------------------------------------
\* C10
\* ------------------------------------------------------------------------
\* the number of records of a code among printed records
CountIn(records, code) ==
    Cardinality({j \in 1..Len(records) : records[j].code = code})

\* C10: E9 is reported once if the final line read has no line terminator
\* and not at all if it has one (a lone "\r" included); the run on the same
\* file with a newline appended reports no E9.
C10_E9IffLastLineUnterminated ==
    (LoopCompleted /\ DefaultRun) =>
        /\ CodeCount(SummaryOf(context), "E9") =
              IF Terminated(Lines(file)[Len(Lines(file))]) THEN 0 ELSE 1
        /\ CountIn(OtherRun([Input EXCEPT !.file = file \o <<LF>>]).printed, "E9") = 0

\* ------------------------------------------------------------------------
\* C11
\* ------------------------------------------------------------------------
\* the non-comment lines of the file, in order
Rows == SelectSeq(Lines(file), LAMBDA l : ~Commented(l))

\* the cells of a raw line
Cells(line) == Split(Bare(line))

\* a cell is empty or holds only whitespace
Blank(cell) == Strip(cell) = <<>>

\* the column indices (from 0) some row has and whose cell is blank in
\* every row that has them
BlankColumns ==
    LET rows == Rows
        cells == [i \in 1..Len(rows) |-> Cells(rows[i])]
    IN  {c \in 0..Len(file) :
            /\ \E i \in 1..Len(rows) : c < Len(cells[i])
            /\ \A i \in 1..Len(rows) :
                  c < Len(cells[i]) => Blank(cells[i][c + 1])}

\* C11: E8 is reported once per column index whose cell is blank in every
\* non-comment row that has that column, and not at all when there is no
\* such column.
C11_E8PerBlankColumn ==
    (DefaultRun /\ pc \in {"return", "done"}) =>
        LET n == Cardinality(BlankColumns)
        IN  /\ CodeCount(SummaryOf(context), "E8") = n
            /\ PrintedCount("E8") = n

\* two rows of different widths, one column blank throughout and one not
C11_Witness ==
    /\ DefaultRun /\ pc = "done"
    /\ Len(Rows) >= 2
    /\ \E i, j \in 1..Len(Rows) : Len(Cells(Rows[i])) # Len(Cells(Rows[j]))
    /\ CodeCount(SummaryOf(context), "E8") = 1
    /\ \E i \in 1..Len(Rows) : ~Blank(Cells(Rows[i])[1])

\* ------------------------------------------------------------------------
\* C12
\* ------------------------------------------------------------------------
\* the number of tab characters of a raw line
Tabs(line) == Len(Cells(line)) - 1

\* the line numbers of the rows whose tab count is not the first row's
UnevenRows ==
    LET ls == Lines(file)
        tabs == [i \in 1..Len(ls) |-> Tabs(ls[i])]
    IN  {i \in 1..Len(ls) : tabs[i] # tabs[1]}

\* C12: without a comment prefix, the E4 count equals the number of rows
\* whose tab count differs from the tab count of the first row; no E4 is
\* reported for the first row, and none at all when the tab count is
\* uniform.
C12_E4PerUnevenRow ==
    (DefaultRun /\ comment = <<>> /\ LoopCompleted) =>
        /\ LET n == Cardinality(UnevenRows)
           IN  /\ CodeCount(SummaryOf(context), "E4") = n
               /\ PrintedCount("E4") = n
        /\ \A j \in 1..Len(printed) :
              printed[j].code = "E4" => printed[j].line # 1

\* a first row with a tab, a later row with the same tab count and a
\* later row with another one
C12_Witness ==
    /\ DefaultRun /\ comment = <<>> /\ pc = "done"
    /\ Tabs(Lines(file)[1]) >= 1
    /\ Cardinality(UnevenRows) >= 1
    /\ CodeCount(SummaryOf(context), "E4") = Cardinality(UnevenRows)
    /\ \E i \in 2..Len(Lines(file)) : i \notin UnevenRows

\* ------------------------------------------------------------------------
\* C13
\* ------------------------------------------------------------------------
\* the line numbers of the non-comment lines
RowLines ==
    LET ls == Lines(file) IN {i \in 1..Len(ls) : ~Commented(ls[i])}

\* the line number of the first non-comment line (0 if there is none)
FirstRowLine ==
    LET rs == RowLines
    IN  IF rs = {} THEN 0 ELSE CHOOSE i \in rs : \A k \in rs : i <= k

\* the cell of line i at column index c
CellAt(i, c) == Cells(Lines(file)[i])[c + 1]

\* the cells (line number, column index) after the first row that are not
\* empty and hold only whitespace
WhitespaceOnlyCells ==
    {p \in (RowLines \ {FirstRowLine}) \X (0..Len(file)) :
        /\ p[2] < Len(Cells(Lines(file)[p[1]]))
        /\ CellAt(p[1], p[2]) # <<>>
        /\ Blank(CellAt(p[1], p[2]))}

\* the number of printed records of a code at a line and column
PrintedAt(i, c, code) ==
    Cardinality({j \in 1..Len(printed) :
                    printed[j] = [line |-> i, column |-> c, code |-> code]})

\* C13: a non-empty whitespace-only cell in a row after the first row is
\* reported exactly three times by the cell checks, once as E2, once as E3
\* and once as E7, and the summary has an entry of its own for each.
C13_WhitespaceOnlyCellThreeFindings ==
    (DefaultRun /\ LoopCompleted) =>
        \A p \in WhitespaceOnlyCells :
            /\ \A code \in {"E2", "E3", "E7"} :
                  /\ PrintedAt(p[1], p[2], code) = 1
                  /\ CodeCount(SummaryOf(context), code) >= 1
            /\ Cardinality({k \in DOMAIN SummaryOf(context) :
                    SummaryOf(context)[k].error_code \in {"E2", "E3", "E7"}}) = 3

\* ------------------------------------------------------------------------
\* C14
\* ------------------------------------------------------------------------
\* the column indices of the blank cells of line i
BlankCellsOf(i) ==
    LET cs == Cells(Lines(file)[i])
    IN  {c \in 0..(Len(cs) - 1) : Blank(cs[c + 1])}

\* two cells of line i are equal
HasEqualCells(i) ==
    LET cs == Cells(Lines(file)[i])
    IN  \E c, d \in 1..Len(cs) : c # d /\ cs[c] = cs[d]

\* the first non-comment line has been read
HeaderRead ==
    LET first == FirstRowLine IN first > 0 /\ line_counter >= first

\* C14: once the first non-comment line has been read, the E6 count is the
\* number of its blank cells and the E10 count is 1 if two of its cells are
\* equal and 0 otherwise; before that both counts are 0, and every E6 and
\* E10 finding carries the number of that line, so no comment line before
\* it and no line after it adds one.
C14_HeaderChecksOnFirstRowOnly ==
    DefaultRun =>
        LET first == FirstRowLine
            read == HeaderRead
            e6 == CodeCount(SummaryOf(context), "E6")
            e10 == CodeCount(SummaryOf(context), "E10")
        IN  /\ e6 = IF read THEN Cardinality(BlankCellsOf(first)) ELSE 0
            /\ e10 = IF read /\ HasEqualCells(first) THEN 1 ELSE 0
            /\ PrintedCount("E6") = e6
            /\ PrintedCount("E10") = e10
            /\ \A j \in 1..Len(printed) :
                  printed[j].code \in {"E6", "E10"} => printed[j].line = first

\* a header with blank and equal cells, followed by a row with blank and
\* equal cells
C14_Witness ==
    /\ DefaultRun /\ pc = "done"
    /\ CodeCount(SummaryOf(context), "E6") = 2
    /\ CodeCount(SummaryOf(context), "E10") = 1
    /\ \E i \in RowLines :
          i > FirstRowLine /\ BlankCellsOf(i) # {} /\ HasEqualCells(i)

\* ------------------------------------------------------------------------
\* C15
\* ------------------------------------------------------------------------
\* string.printable, as far as the alphabets go
PrintableASCII == Alphabet \cup {FF}

\* the cells (line number, column index) of the non-comment lines that hold
\* a character outside printable ASCII
NonAsciiCells ==
    {p \in RowLines \X (0..Len(file)) :
        /\ p[2] < Len(Cells(Lines(file)[p[1]]))
        /\ \E k \in 1..Len(CellAt(p[1], p[2])) :
              CellAt(p[1], p[2])[k] \notin PrintableASCII}

\* a text with "a" in place of every character outside printable ASCII
Asciified(s) ==
    [k \in 1..Len(s) |-> IF s[k] \in PrintableASCII THEN s[k] ELSE "a"]

\* C15: W1 is reported once per cell that holds a character outside
\* printable ASCII, and a file with no other defect (the file with those
\* characters replaced yields the empty summary) yields a summary whose
\* only entry is the one of W1.
C15_W1PerNonAsciiCell ==
    (DefaultRun /\ summary /\ pc = "done") =>
        /\ CodeCount(result, "W1") = Cardinality(NonAsciiCells)
        /\ (/\ NonAsciiCells # {}
            /\ OtherRun([Input EXCEPT !.file = Asciified(file)]).result = <<>>)
           => /\ Cardinality(DOMAIN result) = 1
              /\ \A k \in DOMAIN result : result[k].error_code = "W1"

\* ------------------------------------------------------------------------
\* C16
\* ------------------------------------------------------------------------
\* a cell that is not blank, has no whitespace at either end and holds
\* printable ASCII only
CleanCell(cell) ==
    /\ ~Blank(cell)
    /\ Head(cell) \notin Whitespace /\ cell[Len(cell)] \notin Whitespace
    /\ \A k \in 1..Len(cell) : cell[k] \in PrintableASCII

\* every line ends with a bare "\n", all lines have the same tab count,
\* every cell is clean and the header has no two equal cells
CleanFile ==
    /\ \A i \in 1..Len(Lines(file)) :
          /\ Lines(file)[i] = Bare(Lines(file)[i]) \o <<LF>>
          /\ Tabs(Lines(file)[i]) = Tabs(Lines(file)[1])
          /\ \A c \in 0..Tabs(Lines(file)[i]) : CleanCell(CellAt(i, c))
    /\ FirstRowLine > 0 => ~HasEqualCells(FirstRowLine)

\* C16: a file in which every line ends with a bare "\n", all rows have the
\* same tab count, no cell is blank or has leading or trailing whitespace,
\* the header has no duplicate values and all characters are printable
\* ASCII yields the empty summary: the run reports nothing and returns {}.
C16_NoFalsePositives ==
    (DefaultRun /\ CleanFile) =>
        /\ pc # "raised"
        /\ printed = <<>> /\ SummaryOf(context) = <<>>
        /\ pc = "done" => result = <<>>

\* ------------------------------------------------------------------------
\* C17
\* ------------------------------------------------------------------------
\* C17: a second call of validate on the same checker and the same file,
\* with the same options, ends as the first one did and returns the same
\* summary: nothing the first call left behind is seen by the second.
C17_SecondCallReturnsTheSame ==
    call >= 2 =>
        /\ pc \notin {"raised", "exit"}
        /\ pc = "done" => result = previous

\* a second call has returned a summary that counts several failures
C17_Witness ==
    /\ call = 2 /\ pc = "done"
    /\ result = previous
    /\ \E k \in DOMAIN result : result[k].count >= 2
    /\ Cardinality(DOMAIN result) >= 2

\* ------------------------------------------------------------------------
\* C18
\* ------------------------------------------------------------------------
\* C18: once the line loop has ended, last_line is the line number of the
\* final line read, the number of lines of the file.
C18_LastLineIsNumberOfLines ==
    KEY_LAST_LINE \in DOMAIN context =>
        context[KEY_LAST_LINE] = Len(Lines(file))

\* ------------------------------------------------------------------------
\* C19
\* ------------------------------------------------------------------------
\* the context keys that are set once in a run
SetOnceKeys == {KEY_FIRST_ROW, KEY_TAB_COUNT, KEY_LAST_LINE}

\* within one call, a step keeps each of the keys it finds set, with its
\* value
KeepsSetOnceKeys ==
    call' = call =>
        \A k \in SetOnceKeys :
            k \in DOMAIN context =>
                k \in DOMAIN context' /\ context'[k] = context[k]

\* first_row and tab_count are set together, to the line number and the
\* tab count of the first non-comment line
FirstRowRecorded ==
    /\ KEY_FIRST_ROW \in DOMAIN context <=> KEY_TAB_COUNT \in DOMAIN context
    /\ KEY_FIRST_ROW \in DOMAIN context =>
          LET first == FirstRowLine
          IN  /\ first > 0
              /\ context[KEY_FIRST_ROW] = first
              /\ context[KEY_TAB_COUNT] = Tabs(Lines(file)[first])

\* C19: in every run first_row, tab_count and last_line never change once
\* they are set; first_row is the line number of the first non-comment
\* line and tab_count is the tab count of that line.
C19_SetOnceFields == [][KeepsSetOnceKeys]_vars /\ []FirstRowRecorded

\* a run has set the three keys on a file with a comment line before the
\* first row and a later row of another tab count
C19_Witness ==
    /\ SetOnceKeys \subseteq DOMAIN context
    /\ pc = "done"
    /\ FirstRowLine >= 2
    /\ \E i \in RowLines : Tabs(Lines(file)[i]) # context[KEY_TAB_COUNT]

\* ------------------------------------------------------------------------
\* C20
\* ------------------------------------------------------------------------
\* what a context holds under a key (nothing if the key is not set)
Field(ctx, k) == IF k \in DOMAIN ctx THEN <<ctx[k]>> ELSE <<>>

\* the final line of the file
FinalLine == LET ls == Lines(file) IN ls[Len(ls)]

\* a step of the line loop that reads a comment line reports nothing and
\* leaves the summary, first_row, tab_count and the column counts as they
\* are; it advances the line counter and retains the line read
CommentLineStepIsInert ==
    (/\ pc = "loop" /\ call' = call
     /\ line_counter' = line_counter + 1
     /\ Commented(Lines(file)[line_counter + 1]))
    => /\ printed' = printed
       /\ \A k \in {KEY_ERROR_SUMMARY, KEY_FIRST_ROW, KEY_TAB_COUNT,
                    KEY_COLUMN_VALUE_EMPTY_COUNTS} :
             Field(context', k) = Field(context, k)
       /\ pc' = "loop"
       /\ last_line_with_new_line' = Lines(file)[line_counter + 1]
       /\ last_line_without_new_line' = Bare(Lines(file)[line_counter + 1])

\* when the file ends with a comment line, that line is the one retained
\* for the last row check, and E9 is reported for it exactly if it has no
\* terminator
FinalCommentLineGetsE9 ==
    (file # <<>> /\ comment # <<>>) =>
        LET final == FinalLine
        IN  Commented(final) =>
              /\ (pc = "loop" /\ rest = <<>>) =>
                    last_line_with_new_line = final
              /\ (DefaultRun /\ LoopCompleted /\ ~Terminated(final)) =>
                    CodeCount(SummaryOf(context), "E9") = 1
              /\ (DefaultRun /\ LoopCompleted /\ EndsWith(final, <<LF>>)) =>
                    CodeCount(SummaryOf(context), "E9") = 0

\* C20: reading a comment line runs no check and leaves the summary,
\* first_row, tab_count and the column counts unchanged; it only advances
\* the line counter and replaces the retained bare and raw line, so a
\* comment line that ends the file is the line E9 is decided on.
C20_CommentLineOnlyAdvances ==
    [][CommentLineStepIsInert]_vars /\ []FinalCommentLineGetsE9

\* a comment line without terminator has been read as the final line,
\* after a row that left findings and column counts in the context
C20_Witness ==
    /\ pc = "done" /\ DefaultRun
    /\ Len(Lines(file)) >= 2
    /\ Commented(FinalLine) /\ ~Terminated(FinalLine)
    /\ KEY_FIRST_ROW \in DOMAIN context
    /\ CodeCount(SummaryOf(context), "E9") = 1
    /\ Cardinality(DOMAIN SummaryOf(context)) >= 2

\* ------------------------------------------------------------------------
\* C21
\* ------------------------------------------------------------------------
\* the line terminators
Terminators == {<<LF>>, <<CR, LF>>, <<CR>>}

\* the lines ls from the i-th on, each terminator replaced by t (a final
\* line without terminator stays without)
RECURSIVE ReterminatedFrom(_, _, _)
ReterminatedFrom(ls, i, t) ==
    IF i > Len(ls) THEN <<>>
    ELSE Bare(ls[i]) \o (IF Terminated(ls[i]) THEN t ELSE <<>>)
         \o ReterminatedFrom(ls, i + 1, t)

\* the file with every line's terminator replaced by t
Reterminated(s, t) == ReterminatedFrom(Lines(s), 1, t)

\* the codes of the checks that look at the content of a line
ContentCodes == {"E2", "E3", "E4", "E5", "E6", "E7", "E8", "E10", "W1"}

\* the error codes a summary has entries for
CodesOf(sum) == {sum[k].error_code : k \in DOMAIN sum}

\* the only defect of the file is an illegal line ending: a checked line
\* has one, and the file with "\n" for every terminator yields the empty
\* summary
OnlyIllegalEndings ==
    /\ IllegalEndingLines \ CommentLines # {}
    /\ LET other == OtherRun([Input EXCEPT !.file = Reterminated(file, <<LF>>)])
       IN  other.pc = "done" /\ SummaryOf(other.context) = <<>>

\* C21: replacing every line's terminator by one of "\n", "\r\n", "\r"
\* leaves the counts of E2, E3, E4, E5, E6, E7, E8, E10 and W1 as they are,
\* and a file whose only defect is illegal line endings yields a summary
\* with the entry of E1 alone.
C21_TerminatorsChangeOnlyE1 ==
    (DefaultRun /\ pc \in {"done", "raised"}) =>
        /\ \A t \in Terminators :
              LET other == OtherRun([Input EXCEPT !.file = Reterminated(file, t)])
              IN  /\ other.pc = pc
                  /\ \A code \in ContentCodes :
                        CodeCount(SummaryOf(other.context), code) =
                            CodeCount(SummaryOf(context), code)
        /\ OnlyIllegalEndings => CodesOf(SummaryOf(context)) = {"E1"}

\* ------------------------------------------------------------------------
\* C22
\* ------------------------------------------------------------------------
\* the sum of the counts of the entries ks of a summary
RECURSIVE SumCounts(_, _)
SumCounts(sum, ks) ==
    IF ks = {} THEN 0
    ELSE LET k == CHOOSE x \in ks : TRUE
         IN  sum[k].count + SumCounts(sum, ks \ {k})

\* every entry of the summary counts at least one failure, as many as were
\* reported with its error code, and the counts add up to the number of
\* failures reported
SummaryCountsFailures ==
    LET sum == SummaryOf(context)
    IN  /\ \A k \in DOMAIN sum :
              sum[k].count >= 1 /\ sum[k].count = PrintedCount(sum[k].error_code)
        /\ SumCounts(sum, DOMAIN sum) = Len(printed)

\* within one call, a step keeps every entry of the summary and its error
\* code, and adds to each count the number of failures it reports with
\* that code
SummaryOnlyGrows ==
    call' = call =>
        LET sum == SummaryOf(context)
            after == SummaryOf(context')
            new == SubSeq(printed', Len(printed) + 1, Len(printed'))
        IN  /\ Len(printed') >= Len(printed)
            /\ SubSeq(printed', 1, Len(printed)) = printed
            /\ \A k \in DOMAIN sum :
                  /\ k \in DOMAIN after
                  /\ after[k].error_code = sum[k].error_code
                  /\ after[k].count =
                        sum[k].count + CountIn(new, sum[k].error_code)
            /\ \A k \in DOMAIN after \ DOMAIN sum :
                  /\ after[k].count = CountIn(new, after[k].error_code)
                  /\ after[k].count >= 1

\* C22: the summary starts empty, an entry appears when its check first
\* fails, its count grows by one per failure and its error code stays; in
\* every state every entry has a count of at least 1 and the counts add up
\* to the number of failures reported so far.
C22_SummaryCountsFailures ==
    /\ SummaryOf(context) = <<>>
    /\ [][SummaryOnlyGrows]_vars
    /\ []SummaryCountsFailures

\* the line loop is under way with two entries in the summary, one of
\* them counting several failures
C22_Witness ==
    /\ pc = "loop" /\ rest # <<>> /\ line_counter >= 1
    /\ Cardinality(DOMAIN SummaryOf(context)) >= 2
    /\ \E k \in DOMAIN SummaryOf(context) : SummaryOf(context)[k].count >= 2
    /\ SumCounts(SummaryOf(context), DOMAIN SummaryOf(context)) = Len(printed)

\* ------------------------------------------------------------------------
\* C23
\* ------------------------------------------------------------------------
\* C23: on a file that decodes, with the default options, validate raises
\* no exception, whatever the file holds: no line at all, or only comment
\* lines.
C23_ValidateNeverRaises ==
    DefaultRun => pc # "raised"

\* ------------------------------------------------------------------------
\* C24
\* ------------------------------------------------------------------------
\* the number of printed records of a code with a column
PrintedInColumn(code, c) ==
    Cardinality({j \in 1..Len(printed) :
                    printed[j].code = code /\ printed[j].column = c})

\* C24: each E8 finding carries the index of the column that is empty:
\* for every column that is blank throughout there is one printed E8
\* record with that column, and no E8 record has another column.
C24_E8CarriesColumnIndex ==
    (DefaultRun /\ pc \in {"return", "done"}) =>
        LET blank == BlankColumns
        IN  /\ \A c \in blank : PrintedInColumn("E8", c) = 1
            /\ \A j \in 1..Len(printed) :
                  printed[j].code = "E8" => printed[j].column \in blank

=============================================================================
